---- MODULE Spec2Model ----
(***************************************************************************)
(* Model of src/app/page.tsx: the agent-response normalisation             *)
(* (tryParseJSON, parseAgentResponse, extractMessageFromResult) and the    *)
(* page-level store updated by fetchDashboard and sendChat.                *)
(*                                                                         *)
(* JavaScript values are records tagged by the field t.  An object is a    *)
(* record whose other fields are its own keys; a string is a sequence of   *)
(* lexical tokens, so that JSON.parse and the code-fence regular           *)
(* expression work on the text and not on the value it encodes.            *)
(***************************************************************************)
EXTENDS Integers, Sequences, FiniteSets, TLC

\* ------------------------------------------------------------------------
\* JavaScript values
\* ------------------------------------------------------------------------
Undef == [t |-> "undefined"]
Null == [t |-> "null"]
Bool(b) == [t |-> "boolean", b |-> b]
Num(n) == [t |-> "number", n |-> n]
Str(s) == [t |-> "string", s |-> s]
Arr(a) == [t |-> "array", a |-> a]
EmptyObj == [t |-> "object"]

\* Tokens of a string's text.
TFence == [k |-> "fence"]
TLang == [k |-> "lang"]
TSpace == [k |-> "space"]
TNewline == [k |-> "newline"]
TTxt(c) == [k |-> "txt", c |-> c]
TJson(v) == [k |-> "json", v |-> v]

\* A plain-prose string, and the string holding the JSON text of v.
Text(c) == Str(<<TTxt(c)>>)
JsonText(v) == Str(<<TJson(v)>>)
FencedText(v) == Str(<<TTxt("Here you go:"), TNewline, TFence, TLang, TNewline, TJson(v), TNewline, TFence>>)

\* o with key k set to v (assignment o.k = v on a copy).
Put(o, k, v) == [x \in (DOMAIN o) \cup {k} |-> IF x = k THEN v ELSE o[x]]

\* Property read v.k / v?.k for the keys the code reads; a non-object
\* (string, number, boolean, array, null, undefined) has none of them.
Get(v, k) == IF v.t = "object" /\ k \in DOMAIN v THEN v[k] ELSE Undef

\* !!v
Truthy(v) ==
    CASE v.t \in {"undefined", "null"} -> FALSE
      [] v.t = "boolean" -> v.b
      [] v.t = "number" -> v.n # 0
      [] v.t = "string" -> v.s # <<>>
      [] OTHER -> TRUE

\* typeof v === 'object'
TypeofObject(v) == v.t \in {"object", "array", "null"}
\* typeof v === 'string'
TypeofString(v) == v.t = "string"
\* Array.isArray(v)
IsArray(v) == v.t = "array"

\* ------------------------------------------------------------------------
\* String primitives
\* ------------------------------------------------------------------------
IsWhite(tok) == tok.k \in {"space", "newline"}

RECURSIVE TrimLeft(_)
TrimLeft(s) == IF s # <<>> /\ IsWhite(Head(s)) THEN TrimLeft(Tail(s)) ELSE s

RECURSIVE TrimRight(_)
TrimRight(s) ==
    IF s # <<>> /\ IsWhite(s[Len(s)]) THEN TrimRight(SubSeq(s, 1, Len(s) - 1)) ELSE s

\* String.prototype.trim
Trim(s) == TrimRight(TrimLeft(s))

\* JSON.parse: the text, surrounding white space aside, must be exactly one
\* JSON text.  ok = FALSE stands for the SyntaxError it throws.
JSONParse(s) ==
    LET body == Trim(s)
    IN IF Len(body) = 1 /\ body[1].k = "json"
       THEN [ok |-> TRUE, v |-> body[1].v]
       ELSE [ok |-> FALSE, v |-> Undef]

\* JSON.stringify of a value that is not undefined.
JSONStringify(v) == JsonText(v)

\* Positions of the fence tokens of s.
FencePositions(s) == {i \in 1..Len(s) : s[i].k = "fence"}

Min(S) == CHOOSE x \in S : \A y \in S : x <= y

\* \n? before the closing fence takes one newline
DropLastNewline(s) ==
    IF s # <<>> /\ s[Len(s)].k = "newline" THEN SubSeq(s, 1, Len(s) - 1) ELSE s

\* The pattern without (?:json)? : a language tag is part of the body.
AfterTag_NoTag(s, open, close) == open + 1

\* The first position of s after the opening fence and its optional
\* language tag.
AfterTag(s, open, close) ==
    IF open + 1 < close /\ s[open + 1].k = "lang" THEN open + 2 ELSE open + 1

\* Group 1 of the match that opens at fence open and closes at fence close:
\* \s* takes the white space after the tag, the rest is the body.
FenceGroup(s, open, close) ==
    [found |-> TRUE,
     body |-> DropLastNewline(TrimLeft(SubSeq(s, AfterTag(s, open, close), close - 1)))]

FenceMatchAt(s, fs, open) == FenceGroup(s, open, Min(fs \ {open}))

FenceMatchIn(s, fs) ==
    IF Cardinality(fs) < 2 THEN [found |-> FALSE, body |-> <<>>]
    ELSE FenceMatchAt(s, fs, Min(fs))

\* val.match(/```(?:json)?\s*\n?([\s\S]*?)\n?```/): the leftmost opening
\* fence that has a closing fence after it; group 1 is the text between the
\* optional language tag (and the white space after it) and the first
\* closing fence.  found = FALSE is the null result.
FenceMatch(s) == FenceMatchIn(s, FencePositions(s))

\* ------------------------------------------------------------------------
\* tryParseJSON
\* ------------------------------------------------------------------------
\* try { return JSON.parse(...) } catch { <otherwise> }
ParsedOr(p, otherwise) == IF p.ok THEN p.v ELSE otherwise

\* the catch branch: the body of a fenced block, or null
ParseFence(match) ==
    IF match.found THEN ParsedOr(JSONParse(Trim(match.body)), Null) ELSE Null

\* tryParseJSON ending in  return val : a truthy value that is neither an
\* object nor a string is handed back as it is.
tryParseJSON_PassThrough(val) ==
    IF ~Truthy(val) THEN Null
    ELSE IF TypeofObject(val) THEN val
    ELSE IF TypeofString(val) THEN ParsedOr(JSONParse(val.s), ParseFence(FenceMatch(val.s)))
    ELSE val

tryParseJSON(val) ==
    IF ~Truthy(val) THEN Null
    ELSE IF TypeofObject(val) THEN val
    ELSE IF TypeofString(val) THEN ParsedOr(JSONParse(val.s), ParseFence(FenceMatch(val.s)))
    ELSE Null

\* ------------------------------------------------------------------------
\* parseAgentResponse
\* ------------------------------------------------------------------------
Miss == [hit |-> FALSE, val |-> Null]
Hit(v) == [hit |-> TRUE, val |-> v]

\* The test of strategy 1.
Test1(data) ==
    /\ Truthy(data)
    /\ TypeofObject(data)
    /\ (Truthy(Get(data, "message")) \/ Truthy(Get(data, "metrics"))
        \/ Truthy(Get(data, "lowStockAlerts")) \/ Truthy(Get(data, "inventoryItems")))

\* The test written out in strategies 2, 3 (twice), 4 and 6.
Test2346(v) ==
    /\ Truthy(v)
    /\ TypeofObject(v)
    /\ (Truthy(Get(v, "message")) \/ Truthy(Get(v, "metrics")) \/ Truthy(Get(v, "lowStockAlerts")))

\* The test of strategy 5.
Test5(msgParsed) ==
    /\ Truthy(msgParsed)
    /\ TypeofObject(msgParsed)
    /\ (Truthy(Get(msgParsed, "metrics")) \/ Truthy(Get(msgParsed, "lowStockAlerts")))

Return1(data) == IF Test1(data) THEN Hit(data) ELSE Miss

\* Strategy 1: result.response.result
Strategy1(result) == Return1(tryParseJSON(Get(Get(result, "response"), "result")))

Return2(parsed) == IF Test2346(parsed) THEN Hit(parsed) ELSE Miss

Try2(textField) == IF Truthy(textField) THEN Return2(tryParseJSON(textField)) ELSE Miss

\* Strategy 2: result.response.result.text
Strategy2(result) == Try2(Get(Get(Get(result, "response"), "result"), "text"))

\* if (typeof inner === 'string') inner = tryParseJSON(inner)
Unwrap(inner) == IF TypeofString(inner) THEN tryParseJSON(inner) ELSE inner

Return3(inner, rawParsed) ==
    IF Test2346(inner) THEN Hit(inner)
    ELSE IF Test2346(rawParsed) THEN Hit(rawParsed)
    ELSE Miss

Try3(rawParsed) ==
    IF Truthy(rawParsed) THEN Return3(Unwrap(Get(rawParsed, "response")), rawParsed) ELSE Miss

\* Strategy 3: result.raw_response, unwrapping its response sub-field
Strategy3(result) ==
    IF Truthy(Get(result, "raw_response"))
    THEN Try3(tryParseJSON(Get(result, "raw_response")))
    ELSE Miss

\* The return of strategy 4 under the narrower test of strategy 5 (message
\* left out).
Return4_NoMessage(respDirect) == IF Test5(respDirect) THEN Hit(respDirect) ELSE Miss

Return4(respDirect) == IF Test2346(respDirect) THEN Hit(respDirect) ELSE Miss

\* Strategy 4: result.response
Strategy4(result) == Return4(tryParseJSON(Get(result, "response")))

Return5(msgParsed, msgField) ==
    IF Test5(msgParsed) THEN Hit(msgParsed) ELSE Hit([t |-> "object", message |-> msgField])

Try5(msgField) ==
    IF Truthy(msgField) /\ TypeofString(msgField)
    THEN Return5(tryParseJSON(msgField), msgField)
    ELSE Miss

\* Strategy 5: result.response.message; a string there always ends the search
Strategy5(result) == Try5(Get(Get(result, "response"), "message"))

\* Strategy 6: result itself
Strategy6(result) == IF Test2346(result) THEN Hit(result) ELSE Miss

Strategy(i, result) ==
    CASE i = 1 -> Strategy1(result)
      [] i = 2 -> Strategy2(result)
      [] i = 3 -> Strategy3(result)
      [] i = 4 -> Strategy4(result)
      [] i = 5 -> Strategy5(result)
      [] OTHER -> Strategy6(result)

\* The order with response.message tried before response.
StrategyOrder_MessageBeforeResponse == <<1, 2, 3, 5, 4, 6>>

\* The strategies in the order the function tries them.
StrategyOrder == <<1, 2, 3, 4, 5, 6>>

NoReturn == [n |-> 0, val |-> Null]

RECURSIVE FirstHit(_, _)
ReturnOrNext(n, r, rest, result) ==
    IF r.hit THEN [n |-> n, val |-> r.val] ELSE FirstHit(rest, result)

\* The first strategy of order whose return statement is reached, with the
\* value it returns; n = 0 when none is.
FirstHit(order, result) ==
    IF order = <<>> THEN NoReturn
    ELSE ReturnOrNext(Head(order), Strategy(Head(order), result), Tail(order), result)

Resolution(result) ==
    IF ~Truthy(result) THEN NoReturn ELSE FirstHit(StrategyOrder, result)

\* The number of the strategy whose return statement is executed, 0 when the
\* function returns null.
WinningStrategy(result) == Resolution(result).n

parseAgentResponse(result) == Resolution(result).val

\* ------------------------------------------------------------------------
\* extractMessageFromResult
\* ------------------------------------------------------------------------
FallbackLiteral == Text("Response received. Dashboard updated.")

\* resp.result.text as returned: stringified unless it is a string
TextOf(text) == IF TypeofString(text) THEN text ELSE JSONStringify(text)

\* The response-level sources tested with  !== undefined  in place of
\* truthiness.
ExtractFromResponse_IfDefined(message, text, resultMessage) ==
    IF message # Undef THEN message
    ELSE IF text # Undef THEN TextOf(text)
    ELSE IF resultMessage # Undef THEN resultMessage
    ELSE FallbackLiteral

\* The response-level sources with result.text tried before message.
ExtractFromResponse_TextFirst(message, text, resultMessage) ==
    IF Truthy(text) THEN TextOf(text)
    ELSE IF Truthy(message) THEN message
    ELSE IF Truthy(resultMessage) THEN resultMessage
    ELSE FallbackLiteral

ExtractFromResponse(message, text, resultMessage) ==
    IF Truthy(message) THEN message
    ELSE IF Truthy(text) THEN TextOf(text)
    ELSE IF Truthy(resultMessage) THEN resultMessage
    ELSE FallbackLiteral

ExtractFrom(parsedMessage, resp) ==
    IF Truthy(parsedMessage) THEN parsedMessage
    ELSE ExtractFromResponse(Get(resp, "message"), Get(Get(resp, "result"), "text"),
                             Get(Get(resp, "result"), "message"))

extractMessageFromResult(result) ==
    ExtractFrom(Get(parseAgentResponse(result), "message"), Get(result, "response"))

\* ------------------------------------------------------------------------
\* Exceptions raised while the parsing functions run
\* ------------------------------------------------------------------------
\* An exception raised at a source line; caught tells whether a catch block
\* of the function encloses that line.
Exc(line, caught) == [line |-> line, caught |-> caught]

\* What a call that raised an exception no catch block took hands back.
Escaped == [t |-> "exception"]

\* v.k without optional chaining: a TypeError when v is null or undefined
ReadRaises(line, v) == IF v.t \in {"undefined", "null"} THEN {Exc(line, FALSE)} ELSE {}

\* The property reads of a test  x && typeof x === 'object' && (x.message
\* || ...)  with the leading  x &&  left out.
GuardedRead_NoNullCheck(line, x) == IF TypeofObject(x) THEN ReadRaises(line, x) ELSE {}

\* The property reads of a test  x && typeof x === 'object' && (x.message
\* || ...) : they are evaluated only after both guards passed.
GuardedRead(line, x) == IF Truthy(x) /\ TypeofObject(x) THEN ReadRaises(line, x) ELSE {}

\* JSON.parse(match[1].trim()) inside the inner try
FenceRaises(match) ==
    IF match.found /\ ~JSONParse(Trim(match.body)).ok THEN {Exc(111, TRUE)} ELSE {}

\* JSON.parse(val) inside the outer try, then the catch branch
StringRaises(s) ==
    IF JSONParse(s).ok THEN {} ELSE {Exc(105, TRUE)} \cup FenceRaises(FenceMatch(s))

tryParseJSONRaises(val) ==
    IF Truthy(val) /\ ~TypeofObject(val) /\ TypeofString(val) THEN StringRaises(val.s) ELSE {}

Raises1(arg) == tryParseJSONRaises(arg) \cup GuardedRead(127, tryParseJSON(arg))

Raises2(textField) ==
    IF Truthy(textField)
    THEN tryParseJSONRaises(textField) \cup GuardedRead(135, tryParseJSON(textField))
    ELSE {}

UnwrapRaises(inner) == IF TypeofString(inner) THEN tryParseJSONRaises(inner) ELSE {}

Raises3Tests(inner, rawParsed) ==
    GuardedRead(149, inner)
      \cup (IF Test2346(inner) THEN {} ELSE GuardedRead(153, rawParsed))

Raises3Parsed(rawParsed) ==
    IF Truthy(rawParsed)
    THEN UnwrapRaises(Get(rawParsed, "response"))
           \cup Raises3Tests(Unwrap(Get(rawParsed, "response")), rawParsed)
    ELSE {}

\* result.raw_response at line 142 is read without optional chaining
Raises3(result) ==
    IF Truthy(Get(result, "raw_response"))
    THEN ReadRaises(142, result)
           \cup tryParseJSONRaises(Get(result, "raw_response"))
           \cup Raises3Parsed(tryParseJSON(Get(result, "raw_response")))
    ELSE {}

Raises4(arg) == tryParseJSONRaises(arg) \cup GuardedRead(161, tryParseJSON(arg))

Raises5(msgField) ==
    IF Truthy(msgField) /\ TypeofString(msgField)
    THEN tryParseJSONRaises(msgField) \cup GuardedRead(169, tryParseJSON(msgField))
    ELSE {}

StrategyRaises(i, result) ==
    CASE i = 1 -> Raises1(Get(Get(result, "response"), "result"))
      [] i = 2 -> Raises2(Get(Get(Get(result, "response"), "result"), "text"))
      [] i = 3 -> Raises3(result)
      [] i = 4 -> Raises4(Get(result, "response"))
      [] i = 5 -> Raises5(Get(Get(result, "response"), "message"))
      [] OTHER -> GuardedRead(177, result)

\* The strategies that run: all of them up to the one that returns.
StrategiesRun(n) == IF n = 0 THEN 1..6 ELSE 1..n

RaisesUpTo(n, result) == UNION {StrategyRaises(i, result) : i \in StrategiesRun(n)}

parseAgentResponseRaises(result) ==
    IF ~Truthy(result) THEN {} ELSE RaisesUpTo(WinningStrategy(result), result)

\* resp.result.text at line 191, reached when resp?.result?.text is truthy;
\* JSON.stringify does not throw on a value that came out of JSON
TextRaises(resp) == ReadRaises(191, resp) \cup ReadRaises(191, Get(resp, "result"))

ExtractRaises(parsedMessage, resp) ==
    IF ~Truthy(parsedMessage) /\ ~Truthy(Get(resp, "message"))
       /\ Truthy(Get(Get(resp, "result"), "text"))
    THEN TextRaises(resp)
    ELSE {}

extractMessageFromResultRaises(result) ==
    parseAgentResponseRaises(result)
      \cup ExtractRaises(Get(parseAgentResponse(result), "message"), Get(result, "response"))

\* What a call hands back: the value v it returns, unless one of the
\* exceptions it raised was not caught.
ReturnOrThrow(raises, v) == IF \E e \in raises : ~e.caught THEN Escaped ELSE v

\* ------------------------------------------------------------------------
\* Sample dashboard data carried by the modelled agent replies
\* ------------------------------------------------------------------------
MsgA == Text("Dashboard summary")
MsgB == Text("low stock on gloves")
MetricsA == [t |-> "object", totalSKUs |-> Num(5), lowStockCount |-> Num(0),
             pendingOrders |-> Num(2), topSeller |-> Text("gloves")]
MetricsB == [t |-> "object", lowStockCount |-> Num(1)]
AlertA == [t |-> "object", product |-> Text("gloves"), priority |-> Text("high")]
ItemA == [t |-> "object", product |-> Text("gloves"), sku |-> Text("G-1")]
ItemB == [t |-> "object", product |-> Text("mat"), sku |-> Text("M-1")]
SaleA == [t |-> "object", product |-> Text("gloves"), unitsSold |-> Num(3)]
OrderA == [t |-> "object", orderId |-> Text("PO-1"), items |-> Arr(<<>>)]

\* The list fields of AgentData that the chat merge treats alike.
ListFields == {"lowStockAlerts", "inventoryItems", "salesData", "orders"}
SnapshotFields == {"message", "metrics"} \cup ListFields

FullSnapshot ==
    [t |-> "object", message |-> MsgA, metrics |-> MetricsA,
     lowStockAlerts |-> Arr(<<AlertA>>), inventoryItems |-> Arr(<<ItemA>>),
     salesData |-> Arr(<<SaleA>>), orders |-> Arr(<<OrderA>>)]
ChatTurnSnapshot == [t |-> "object", message |-> MsgB, metrics |-> MetricsB]
EmptyListsSnapshot ==
    [t |-> "object", message |-> MsgB, lowStockAlerts |-> Arr(<<>>),
     inventoryItems |-> Arr(<<>>), salesData |-> Arr(<<>>), orders |-> Arr(<<>>)]
InventoryOnlySnapshot == [t |-> "object", inventoryItems |-> Arr(<<ItemB>>)]
SalesSnapshot == [t |-> "object", message |-> MsgB, salesData |-> Arr(<<SaleA>>)]
\* accepted through its metrics; its message is the empty string
EmptyMessageSnapshot == [t |-> "object", message |-> Str(<<>>), metrics |-> MetricsB]

\* What callAIAgent hands back: a returned result object, or a thrown value.
Returned(v) == [threw |-> FALSE, v |-> v]
Thrown(e) == [threw |-> TRUE, v |-> e]
ErrorObject(m) == [t |-> "error", message |-> m]

Success(resp) == [t |-> "object", success |-> Bool(TRUE), response |-> resp]
Failure(err) == [t |-> "object", success |-> Bool(FALSE), error |-> err]

Outcomes ==
    { Returned(Success([t |-> "object", result |-> JsonText(FullSnapshot)])),
      Returned(Success(ChatTurnSnapshot)),
      Returned(Success([t |-> "object", result |-> EmptyListsSnapshot])),
      Returned(Success([t |-> "object", result |-> FencedText(SalesSnapshot)])),
      Returned(Success([t |-> "object", result |-> InventoryOnlySnapshot])),
      Returned(Success(EmptyObj)),
      Returned(Success([t |-> "object", result |-> EmptyMessageSnapshot])),
      Returned(Failure(Text("agent unavailable"))),
      Returned(Failure(Str(<<>>))),
      Returned([t |-> "object", success |-> Bool(FALSE)]),
      Thrown(ErrorObject(Text("Failed to fetch"))) }

\* ------------------------------------------------------------------------
\* Bounds
\* ------------------------------------------------------------------------
\* Longest chat transcript for which a further chat send is explored.
MaxChat == 3
\* Most calls of one call site that the model lets be in flight at once.
MaxCalls == 2

\* ------------------------------------------------------------------------
\* Page state
\* ------------------------------------------------------------------------
AGENT_ID == Text("699d4f2141645707cdaec53a")

VARIABLES
    mounted,        \* the mount effect has run
    agentData,      \* useState<AgentData | null>
    loading,        \* useState(true)
    error,          \* useState<string | null>
    activeAgentId,  \* useState<string | null>
    chatMessages,   \* useState<ChatMessage[]>
    chatInput,      \* useState('')
    chatLoading,    \* useState(false)
    loadCalls,      \* fetchDashboard invocations suspended at their await
    chatCalls,      \* sendChat invocations suspended at their await
    hist,           \* what the latest overlapping load and chat calls resolved to
    raw,            \* value handed to a parsing function on its own
    resolved,       \* what parseAgentResponse returned for raw
    extracted,      \* what extractMessageFromResult returned for raw
    decoded         \* what tryParseJSON returned for raw

vars == <<mounted, agentData, loading, error, activeAgentId, chatMessages,
          chatInput, chatLoading, loadCalls, chatCalls, hist,
          raw, resolved, extracted, decoded>>

harnessVars == <<raw, resolved, extracted, decoded>>

pageVars == <<mounted, agentData, loading, error, activeAgentId, chatMessages,
              chatInput, chatLoading, loadCalls, chatCalls, hist>>

ChatMessage(role, content) == [role |-> role, content |-> content]

\* Texts the user may have in the chat box.
ChatInputs == { <<>>, <<TSpace>>, <<TSpace, TTxt("Show gloves inventory"), TSpace>> }

\* ------------------------------------------------------------------------
\* History of overlapping calls (not program state)
\* ------------------------------------------------------------------------
NoOverlap == [overlap |-> FALSE, load |-> [st |-> "none"], chat |-> [st |-> "none"]]
BothPending == [overlap |-> TRUE, load |-> [st |-> "pending"], chat |-> [st |-> "pending"]]

\* The snapshot a settled call resolved to, Null when it took a failure path.
ResolvedOf(outcome) ==
    IF ~outcome.threw /\ Truthy(Get(outcome.v, "success"))
    THEN parseAgentResponse(outcome.v) ELSE Null

Settled(parsed) == [st |-> "settled", sales |-> Get(parsed, "salesData")]

\* ------------------------------------------------------------------------
\* fetchDashboard
\* ------------------------------------------------------------------------
\* fetchDashboard clearing the snapshot when the call fails.
fetchAgentData_ClearOnFailure(prev, parsed) == IF Truthy(parsed) THEN parsed ELSE Null

\* setAgentData(parsed), reached only with a parsed snapshot
fetchAgentData(prev, parsed) == IF Truthy(parsed) THEN parsed ELSE prev

\* setChatMessages([...]) when the parsed snapshot has a message
fetchChatMessages(prev, parsed) ==
    IF Truthy(parsed) /\ Truthy(Get(parsed, "message"))
    THEN <<ChatMessage("agent", Get(parsed, "message"))>>
    ELSE prev

\* a ?? b
Coalesce(a, b) == IF a.t \in {"undefined", "null"} THEN b ELSE a

\* e instanceof Error ? e.message : fallback
ErrorText(e, fallback) == IF e.t = "error" THEN e.message ELSE fallback

\* the setError calls of the settle paths
fetchError(prev, outcome, parsed) ==
    IF outcome.threw THEN ErrorText(outcome.v, Text("Network error"))
    ELSE IF Truthy(Get(outcome.v, "success"))
    THEN (IF Truthy(parsed) THEN prev
          ELSE Text("Could not parse agent response. Try asking a question in the chat."))
    ELSE Coalesce(Get(outcome.v, "error"), Text("Agent call failed. Please retry."))

\* fetchDashboard up to its await without setError(null): the error banner
\* and its Retry button stay on screen while the call is in flight.
FetchStart_KeepError ==
    /\ loadCalls < MaxCalls
    /\ loading' = TRUE
    /\ activeAgentId' = AGENT_ID
    /\ loadCalls' = loadCalls + 1
    /\ hist' = IF chatCalls > 0 THEN BothPending ELSE NoOverlap
    /\ UNCHANGED <<agentData, error, chatMessages, chatInput, chatLoading, chatCalls, harnessVars>>

\* fetchDashboard up to its await
FetchStart ==
    /\ loadCalls < MaxCalls
    /\ loading' = TRUE
    /\ error' = Null
    /\ activeAgentId' = AGENT_ID
    /\ loadCalls' = loadCalls + 1
    /\ hist' = IF chatCalls > 0 THEN BothPending ELSE NoOverlap
    /\ UNCHANGED <<agentData, chatMessages, chatInput, chatLoading, chatCalls, harnessVars>>

\* useEffect(() => { fetchDashboard() }, [fetchDashboard])
MountEffect ==
    /\ ~mounted
    /\ mounted' = TRUE
    /\ FetchStart

\* The Refresh button, disabled={loading}
Refresh ==
    /\ mounted
    /\ ~loading
    /\ FetchStart
    /\ UNCHANGED mounted

\* The Retry button of the error banner, rendered when error is set
Retry ==
    /\ mounted
    /\ Truthy(error)
    /\ FetchStart
    /\ UNCHANGED mounted

\* A settling fetchDashboard with setLoading(false) at the end of the try
\* block instead of in finally: a thrown error leaves loading set.
FetchApply_NoFinally(outcome, parsed) ==
    /\ agentData' = fetchAgentData(agentData, parsed)
    /\ chatMessages' = fetchChatMessages(chatMessages, parsed)
    /\ error' = fetchError(error, outcome, parsed)
    /\ loading' = outcome.threw
    /\ activeAgentId' = Null
    /\ loadCalls' = loadCalls - 1
    /\ hist' = IF hist.overlap THEN [hist EXCEPT !.load = Settled(parsed)] ELSE hist
    /\ UNCHANGED <<mounted, chatInput, chatLoading, chatCalls, harnessVars>>

\* The state changes of a settling fetchDashboard whose result parsed to
\* parsed (Null on the failure paths).
FetchApply(outcome, parsed) ==
    /\ agentData' = fetchAgentData(agentData, parsed)
    /\ chatMessages' = fetchChatMessages(chatMessages, parsed)
    /\ error' = fetchError(error, outcome, parsed)
    /\ loading' = FALSE
    /\ activeAgentId' = Null
    /\ loadCalls' = loadCalls - 1
    /\ hist' = IF hist.overlap THEN [hist EXCEPT !.load = Settled(parsed)] ELSE hist
    /\ UNCHANGED <<mounted, chatInput, chatLoading, chatCalls, harnessVars>>

\* fetchDashboard from its await to the end of finally
FetchSettle(outcome) ==
    /\ loadCalls > 0
    /\ FetchApply(outcome, ResolvedOf(outcome))

\* ------------------------------------------------------------------------
\* sendChat
\* ------------------------------------------------------------------------
\* The entries of a list field, none when it is not an array.
EffectiveListOf(v) == IF IsArray(v) THEN v.a ELSE <<>>

\* if (Array.isArray(parsed.f) && parsed.f.length > 0) updated.f = parsed.f,
\* without the length test
MergeList_AnyArray(updated, f, incoming) ==
    IF IsArray(incoming) THEN Put(updated, f, incoming) ELSE updated

\* updated.f = [...(updated.f ?? []), ...parsed.f] : the incoming entries are
\* added to the list instead of replacing it.
MergeList_Concat(updated, f, incoming) ==
    IF IsArray(incoming) /\ Len(incoming.a) > 0
    THEN Put(updated, f, Arr(EffectiveListOf(Get(updated, f)) \o incoming.a))
    ELSE updated

\* if (Array.isArray(parsed.f) && parsed.f.length > 0) updated.f = parsed.f
MergeList(updated, f, incoming) ==
    IF IsArray(incoming) /\ Len(incoming.a) > 0 THEN Put(updated, f, incoming) ELSE updated

\* updated.f = { ...updated.f, ...parsed.f } for records: the fields of the
\* previous record that the incoming one lacks are kept.
MergeField_DeepMerge(updated, f, incoming) ==
    IF ~Truthy(incoming) THEN updated
    ELSE IF incoming.t = "object" /\ Get(updated, f).t = "object"
    THEN Put(updated, f, [k \in (DOMAIN updated[f]) \cup (DOMAIN incoming) |->
                             IF k \in DOMAIN incoming THEN incoming[k] ELSE updated[f][k]])
    ELSE Put(updated, f, incoming)

\* if (parsed.f) updated.f = parsed.f
MergeField(updated, f, incoming) ==
    IF Truthy(incoming) THEN Put(updated, f, incoming) ELSE updated

\* const updated = { ...prev }
Spread(prev) == IF prev.t = "object" THEN prev ELSE EmptyObj

\* the updater without its last line (the message is never taken over)
MergeAgentData_KeepMessage(prev, parsed) ==
    MergeList(
      MergeList(
        MergeList(
          MergeList(
            MergeField(Spread(prev), "metrics", Get(parsed, "metrics")),
            "lowStockAlerts", Get(parsed, "lowStockAlerts")),
          "inventoryItems", Get(parsed, "inventoryItems")),
        "salesData", Get(parsed, "salesData")),
      "orders", Get(parsed, "orders"))

\* the updater passed to setAgentData
MergeAgentData(prev, parsed) ==
    MergeField(
      MergeList(
        MergeList(
          MergeList(
            MergeList(
              MergeField(Spread(prev), "metrics", Get(parsed, "metrics")),
              "lowStockAlerts", Get(parsed, "lowStockAlerts")),
            "inventoryItems", Get(parsed, "inventoryItems")),
          "salesData", Get(parsed, "salesData")),
        "orders", Get(parsed, "orders")),
      "message", Get(parsed, "message"))

\* sendChat running the updater on a miss as well, with nothing to spread
chatAgentData_ResetOnMiss(prev, parsed) ==
    IF Truthy(parsed) THEN MergeAgentData(prev, parsed) ELSE EmptyObj

\* setAgentData(prev => ...) inside  if (parsed)
chatAgentData(prev, parsed) == IF Truthy(parsed) THEN MergeAgentData(prev, parsed) ELSE prev

\* the content of the agent message appended when the call settles
chatReply(outcome, parsed) ==
    IF outcome.threw THEN ErrorText(outcome.v, Text("Network error."))
    ELSE IF Truthy(Get(outcome.v, "success"))
    THEN (IF Truthy(parsed)
          THEN Coalesce(Get(parsed, "message"), extractMessageFromResult(outcome.v))
          ELSE extractMessageFromResult(outcome.v))
    ELSE Coalesce(Get(outcome.v, "error"), Text("Sorry, something went wrong."))

\* onChange of the chat box and the suggestion buttons
SetChatInput(text) ==
    /\ mounted
    /\ chatInput # text
    /\ chatInput' = text
    /\ UNCHANGED <<mounted, agentData, loading, error, activeAgentId, chatMessages,
                   chatLoading, loadCalls, chatCalls, hist, harnessVars>>

\* the state changes of an accepted sendChat up to its await
Dispatch(msg) ==
    /\ chatInput' = <<>>
    /\ chatMessages' = Append(chatMessages, ChatMessage("user", Str(msg)))
    /\ chatLoading' = TRUE
    /\ activeAgentId' = AGENT_ID
    /\ chatCalls' = chatCalls + 1
    /\ hist' = IF loadCalls > 0 THEN BothPending ELSE NoOverlap
    /\ UNCHANGED <<mounted, agentData, loading, error, loadCalls, harnessVars>>

\* if (!msg) return : a send is let through while a chat call is in flight
Accepts_IgnoreLoading(msg) == msg # <<>>

\* if (!msg || chatLoading) return
Accepts(msg) == ~(msg = <<>> \/ chatLoading)

\* sendChat up to its await, taken when the guard lets the message through
SendChat ==
    /\ mounted
    /\ Accepts(Trim(chatInput))
    /\ Len(chatMessages) < MaxChat
    /\ chatCalls < MaxCalls
    /\ Dispatch(Trim(chatInput))

\* sendChat returning at its guard: nothing is set
SendChatRejected ==
    /\ mounted
    /\ ~Accepts(Trim(chatInput))
    /\ UNCHANGED vars

\* A settling sendChat whose catch block appends nothing.
ChatApply_SilentOnThrow(outcome, parsed) ==
    /\ agentData' = chatAgentData(agentData, parsed)
    /\ chatMessages' = IF outcome.threw THEN chatMessages
                       ELSE Append(chatMessages, ChatMessage("agent", chatReply(outcome, parsed)))
    /\ chatLoading' = FALSE
    /\ activeAgentId' = Null
    /\ chatCalls' = chatCalls - 1
    /\ hist' = IF hist.overlap THEN [hist EXCEPT !.chat = Settled(parsed)] ELSE hist
    /\ UNCHANGED <<mounted, loading, error, chatInput, loadCalls, harnessVars>>

\* The state changes of a settling sendChat whose result parsed to parsed
\* (Null on the failure paths).
ChatApply(outcome, parsed) ==
    /\ agentData' = chatAgentData(agentData, parsed)
    /\ chatMessages' = Append(chatMessages, ChatMessage("agent", chatReply(outcome, parsed)))
    /\ chatLoading' = FALSE
    /\ activeAgentId' = Null
    /\ chatCalls' = chatCalls - 1
    /\ hist' = IF hist.overlap THEN [hist EXCEPT !.chat = Settled(parsed)] ELSE hist
    /\ UNCHANGED <<mounted, loading, error, chatInput, loadCalls, harnessVars>>

\* sendChat from its await to the end of finally
ChatSettle(outcome) ==
    /\ chatCalls > 0
    /\ ChatApply(outcome, ResolvedOf(outcome))

\* ------------------------------------------------------------------------
\* The page
\* ------------------------------------------------------------------------
Init ==
    /\ mounted = FALSE
    /\ agentData = Null
    /\ loading = TRUE
    /\ error = Null
    /\ activeAgentId = Null
    /\ chatMessages = <<>>
    /\ chatInput = <<>>
    /\ chatLoading = FALSE
    /\ loadCalls = 0
    /\ chatCalls = 0
    /\ hist = NoOverlap
    /\ raw = Undef
    /\ resolved = Undef
    /\ extracted = Undef
    /\ decoded = Undef

Next ==
    \/ MountEffect
    \/ Refresh
    \/ Retry
    \/ \E outcome \in Outcomes : FetchSettle(outcome)
    \/ \E text \in ChatInputs : SetChatInput(text)
    \/ SendChat
    \/ SendChatRejected
    \/ \E outcome \in Outcomes : ChatSettle(outcome)

Spec == Init /\ [][Next]_vars

\* ------------------------------------------------------------------------
\* parseAgentResponse on its own: envelopes of many shapes
\* ------------------------------------------------------------------------
\* Places of an envelope where a record can sit.
PResult == 1
PText == 2
PRawOuter == 3
PResponse == 4
PMessage == 5
PEnvelope == 6
PRawInner == 7
Places == {PResult, PText, PRawOuter, PResponse, PMessage, PEnvelope, PRawInner}

PlaceName == <<"result", "text", "raw_response", "response", "message", "envelope", "raw_response.response">>

Kinds == {"none", "metrics", "inventory", "message"}

\* A record of the given kind, recognisable as the one put at place n.
Rec(kind, n) ==
    CASE kind = "metrics" -> [t |-> "object", metrics |-> [t |-> "object", totalSKUs |-> Num(n)]]
      [] kind = "inventory" -> [t |-> "object", inventoryItems |-> Arr(<<[t |-> "object", sku |-> Num(n)]>>)]
      [] kind = "message" -> [t |-> "object", message |-> Text(PlaceName[n])]
      [] OTHER -> EmptyObj

\* o with key k set to v unless v is undefined
PutIf(o, k, v) == IF v = Undef THEN o ELSE Put(o, k, v)

\* The envelope that carries, at every place p, a record of kind c[p]:
\* objects at result, raw_response, response and the envelope itself,
\* JSON text at result.text, raw_response.response and response.message.
EnvelopeOf(c) ==
    LET text == IF c[PText] = "none" THEN Undef ELSE JsonText(Rec(c[PText], PText))
        res0 == PutIf(Rec(c[PResult], PResult), "text", text)
        res == IF res0 = EmptyObj THEN Undef ELSE res0
        msg == IF c[PMessage] = "none" THEN Undef ELSE JsonText(Rec(c[PMessage], PMessage))
        resp0 == PutIf(PutIf(Rec(c[PResponse], PResponse), "result", res), "message", msg)
        resp == IF resp0 = EmptyObj THEN Undef ELSE resp0
        inner == IF c[PRawInner] = "none" THEN Undef ELSE JsonText(Rec(c[PRawInner], PRawInner))
        rawr0 == PutIf(Rec(c[PRawOuter], PRawOuter), "response", inner)
        rawr == IF rawr0 = EmptyObj THEN Undef ELSE rawr0
    IN PutIf(PutIf(Rec(c[PEnvelope], PEnvelope), "response", resp), "raw_response", rawr)

NestedEnvelopes == {EnvelopeOf(c) : c \in [Places -> Kinds]}

\* Ways a record reaches the client as text.
Encodings == {"object", "json", "fenced", "fenced-plain", "fenced-js", "prose", "number"}

Encode(e, v) ==
    CASE e = "object" -> v
      [] e = "json" -> JsonText(v)
      [] e = "fenced" -> FencedText(v)
      [] e = "fenced-plain" -> Str(<<TFence, TJson(v), TFence>>)
      [] e = "fenced-js" -> Str(<<TFence, TTxt("js"), TNewline, TJson(v), TNewline, TFence>>)
      [] e = "prose" -> Str(<<TTxt("Result:"), TSpace, TJson(v)>>)
      [] OTHER -> JsonText(Num(7))

\* The envelope whose only content is x at place p.
EnvelopeAt(p, x) ==
    CASE p = PResult -> [t |-> "object", response |-> [t |-> "object", result |-> x]]
      [] p = PText -> [t |-> "object", response |-> [t |-> "object", result |-> [t |-> "object", text |-> x]]]
      [] p = PRawOuter -> [t |-> "object", raw_response |-> x]
      [] p = PRawInner -> [t |-> "object", raw_response |-> [t |-> "object", response |-> x]]
      [] p = PResponse -> [t |-> "object", response |-> x]
      [] p = PMessage -> [t |-> "object", response |-> [t |-> "object", message |-> x]]
      [] OTHER -> x

EncodedEnvelopes ==
    {EnvelopeAt(p, Encode(e, Rec(k, p))) : p \in Places, e \in Encodings, k \in Kinds \ {"none"}}

TopSellers == Text("Here are your top sellers")

ExampleEnvelopes ==
    { EmptyObj, Null,
      [t |-> "object", response |-> [t |-> "object", result |-> JsonText(Rec("metrics", 5))]],
      [t |-> "object", response |-> [t |-> "object", message |-> TopSellers]],
      [t |-> "object", response |-> [t |-> "object", message |-> TopSellers, salesData |-> Arr(<<SaleA>>)]],
      [t |-> "object", success |-> Bool(TRUE), response |-> [t |-> "object", message |-> Str(<<>>)]] }

\* Values a message or text field of an envelope may hold.
FieldKinds == {"absent", "null", "empty", "text", "number", "zero", "record", "list"}

\* A field value of the given kind, recognisable as the one put at place n.
FieldValue(kind, n) ==
    CASE kind = "null" -> Null
      [] kind = "empty" -> Str(<<>>)
      [] kind = "text" -> Text(PlaceName[n])
      [] kind = "number" -> Num(n)
      [] kind = "zero" -> Num(0)
      [] kind = "record" -> [t |-> "object", title |-> Text(PlaceName[n])]
      [] kind = "list" -> Arr(<<Text(PlaceName[n])>>)
      [] OTHER -> Undef

\* The envelope with the given kinds of value at response.message,
\* response.result.text and response.result.message; base is the rest of
\* response.result.
MessageEnvelope(m, x, rm, base) ==
    [t |-> "object",
     response |-> PutIf([t |-> "object",
                         result |-> PutIf(PutIf(base, "text", FieldValue(x, PText)),
                                          "message", FieldValue(rm, PResult))],
                        "message", FieldValue(m, PMessage))]

\* A record decoded from JSON text whose message is not a string.
JsonMessage(kind) == JsonText([t |-> "object", message |-> FieldValue(kind, PResult)])

MessageEnvelopes ==
    {MessageEnvelope(m, x, rm, base) :
        m \in FieldKinds, x \in FieldKinds, rm \in FieldKinds,
        base \in {EmptyObj, [t |-> "object", metrics |-> MetricsA]}}
      \cup {[t |-> "object", response |-> [t |-> "object", result |-> JsonMessage(k)]] :
              k \in FieldKinds}

Envelopes == NestedEnvelopes \cup EncodedEnvelopes \cup ExampleEnvelopes \cup MessageEnvelopes

\* Values tryParseJSON is handed that are not strings.
PlainValues ==
    { Undef, Null, Num(0), Bool(FALSE), Num(7), Bool(TRUE), EmptyObj, Arr(<<>>),
      Arr(<<Num(1)>>), MetricsA, FullSnapshot }

\* Values whose JSON text is handed to tryParseJSON.
JsonValues ==
    { [t |-> "object", message |-> Text("x")], FullSnapshot, EmptyObj, Arr(<<Num(1)>>),
      Num(7), Num(0), Null, Bool(FALSE), Text("x") }

TextEncodings == Encodings \ {"object"}

NotJson == Text("not json at all")
\* two fenced blocks: the match is the first
TwoBlocks ==
    Str(<<TFence, TLang, TNewline, TJson(MetricsA), TNewline, TFence, TSpace,
          TFence, TLang, TNewline, TJson(MetricsB), TNewline, TFence>>)
\* a fenced block that does not hold JSON, then one that does
ProseBlockFirst ==
    Str(<<TFence, TNewline, TTxt("npm install"), TNewline, TFence, TNewline,
          TFence, TLang, TNewline, TJson(MetricsB), TNewline, TFence>>)
\* an opening fence that is never closed
OpenFence == Str(<<TFence, TLang, TNewline, TJson(MetricsA)>>)
\* white space around the fence body
PaddedFence == Str(<<TFence, TLang, TSpace, TNewline, TSpace, TJson(MetricsA), TSpace, TNewline, TFence>>)
\* JSON text with white space around it
PaddedJson == Str(<<TNewline, TSpace, TJson(MetricsA), TNewline>>)

DecodeInputs ==
    PlainValues
      \cup {Encode(e, v) : e \in TextEncodings, v \in JsonValues}
      \cup {Str(<<>>), Str(<<TSpace>>), NotJson, TwoBlocks, ProseBlockFirst, OpenFence,
            PaddedFence, PaddedJson}

\* parseAgentResponse(raw) is evaluated
Resolve ==
    /\ resolved = Undef
    /\ resolved' = ReturnOrThrow(parseAgentResponseRaises(raw), parseAgentResponse(raw))
    /\ UNCHANGED <<pageVars, raw, extracted, decoded>>

\* extractMessageFromResult(raw) is evaluated
Extract ==
    /\ extracted = Undef
    /\ extracted' = ReturnOrThrow(extractMessageFromResultRaises(raw), extractMessageFromResult(raw))
    /\ UNCHANGED <<pageVars, raw, resolved, decoded>>

\* tryParseJSON(raw) is evaluated
Decode ==
    /\ decoded = Undef
    /\ decoded' = ReturnOrThrow(tryParseJSONRaises(raw), tryParseJSON(raw))
    /\ UNCHANGED <<pageVars, raw, resolved, extracted>>

InitParse ==
    /\ raw \in Envelopes \cup DecodeInputs
    /\ resolved = Undef
    /\ extracted = Undef
    /\ decoded = Undef
    /\ mounted = FALSE
    /\ agentData = Null
    /\ loading = TRUE
    /\ error = Null
    /\ activeAgentId = Null
    /\ chatMessages = <<>>
    /\ chatInput = <<>>
    /\ chatLoading = FALSE
    /\ loadCalls = 0
    /\ chatCalls = 0
    /\ hist = NoOverlap

NextParse == Resolve \/ Extract \/ Decode

SpecParse == InitParse /\ [][NextParse]_vars

\* ========================================================================
\* Properties
\* ========================================================================
NonEmptyArray(v) == IsArray(v) /\ Len(v.a) > 0

IsPrefix(s, u) == Len(s) <= Len(u) /\ SubSeq(u, 1, Len(s)) = s

LastMessage == chatMessages[Len(chatMessages)]

\* C1: when sendChat merges a resolved snapshot into the store, each list
\* field (lowStockAlerts, inventoryItems, salesData, orders) becomes the
\* incoming list if that is a non-empty array, and otherwise keeps the value
\* it had before the merge.
C1_MergeListPolicy ==
    [][\A outcome \in Outcomes :
          (ChatSettle(outcome) /\ Truthy(ResolvedOf(outcome)))
          => \A f \in ListFields :
                LET incoming == Get(ResolvedOf(outcome), f)
                IN IF NonEmptyArray(incoming)
                   THEN Get(agentData', f) = incoming
                   ELSE /\ Get(agentData', f) = Get(agentData, f)
                        /\ (f \in DOMAIN agentData') = (f \in DOMAIN agentData)]_vars

\* C1 witness: the store still lists ItemA although the chat turn that set
\* its message to MsgB brought no inventory (or an empty one).
C1_Witness ==
    /\ Get(agentData, "inventoryItems") = Arr(<<ItemA>>)
    /\ Get(agentData, "message") = MsgB
    /\ chatCalls = 0
    /\ Len(chatMessages) > 0
    /\ LastMessage = ChatMessage("agent", MsgB)

\* const data = agentData ?? {} and the lists the page derives from it
EffectiveList(v) == IF IsArray(v) THEN v ELSE Arr(<<>>)

\* What the page renders from a store value: message, metrics and the four
\* lists, a list that is not an array counting as empty and an empty message
\* as none.
EffectiveData(d) ==
    [message |-> IF Truthy(Get(d, "message")) THEN Get(d, "message") ELSE Undef,
     metrics |-> Get(d, "metrics"),
     lowStockAlerts |-> EffectiveList(Get(d, "lowStockAlerts")),
     inventoryItems |-> EffectiveList(Get(d, "inventoryItems")),
     salesData |-> EffectiveList(Get(d, "salesData")),
     orders |-> EffectiveList(Get(d, "orders"))]

\* C2: every settled call that resolves to a snapshot, at fetchDashboard as
\* at sendChat, leaves the store showing the field-level merge of the
\* previous snapshot and the resolved one.
C2_EverySuccessMerges ==
    [][\A outcome \in Outcomes :
          ((FetchSettle(outcome) \/ ChatSettle(outcome)) /\ Truthy(ResolvedOf(outcome)))
          => EffectiveData(agentData')
               = EffectiveData(MergeAgentData(agentData, ResolvedOf(outcome)))]_vars

\* C3: a call that settles on a failure path (thrown error, success = false,
\* or a result that resolves to no snapshot) leaves agentData as it was.
C3_FailureKeepsSnapshot ==
    [][\A outcome \in Outcomes :
          ((FetchSettle(outcome) \/ ChatSettle(outcome)) /\ ~Truthy(ResolvedOf(outcome)))
          => agentData' = agentData]_vars

\* C3 witness: a chat call threw and a later load returned success = false,
\* and the snapshot of the first load is still in the store.
C3_Witness ==
    /\ agentData = FullSnapshot
    /\ error = Text("agent unavailable")
    /\ loadCalls = 0
    /\ chatCalls = 0
    /\ Len(chatMessages) > 0
    /\ LastMessage = ChatMessage("agent", Text("Failed to fetch"))

\* C4: every step leaves the chat transcript unchanged or extends it at the
\* end.
C4_TranscriptAppendOnly == [][IsPrefix(chatMessages, chatMessages')]_vars

\* C5: when a load and a chat call that were in flight together have both
\* settled, one resolving to salesData = [SaleA] and the other to
\* salesData = [], the store holds salesData = [SaleA].
C5_OrderTolerant ==
    ( /\ hist.overlap
      /\ hist.load.st = "settled"
      /\ hist.chat.st = "settled"
      /\ {hist.load.sales, hist.chat.sales} = {Arr(<<SaleA>>), Arr(<<>>)} )
    => Get(agentData, "salesData") = Arr(<<SaleA>>)

\* A field of the store counts as present when it is set (metrics, message)
\* or is a non-empty list.
Present(d, f) == IF f \in ListFields THEN NonEmptyArray(Get(d, f)) ELSE Get(d, f) # Undef

\* C6: a field that is present in the store is present after every step.
C6_NeverReset ==
    [][\A f \in SnapshotFields : Present(agentData, f) => Present(agentData', f)]_vars

\* The shape predicate in its full form (the test of strategy 1).
ShapePredicate(v) ==
    /\ Truthy(v)
    /\ TypeofObject(v)
    /\ \E k \in {"message", "metrics", "lowStockAlerts", "inventoryItems"} : Truthy(Get(v, k))

\* The decoded candidate of each of the six locations.
Candidate(i, env) ==
    CASE i = 1 -> tryParseJSON(Get(Get(env, "response"), "result"))
      [] i = 2 -> tryParseJSON(Get(Get(Get(env, "response"), "result"), "text"))
      [] i = 3 -> LET outer == tryParseJSON(Get(env, "raw_response"))
                      inner0 == Get(outer, "response")
                      inner == IF TypeofString(inner0) THEN tryParseJSON(inner0) ELSE inner0
                  IN IF ShapePredicate(inner) THEN inner ELSE outer
      [] i = 4 -> tryParseJSON(Get(env, "response"))
      [] i = 5 -> LET m == Get(Get(env, "response"), "message")
                  IN IF TypeofString(m) /\ ShapePredicate(tryParseJSON(m)) THEN tryParseJSON(m)
                     ELSE IF TypeofString(m) /\ Truthy(m) THEN [t |-> "object", message |-> m]
                     ELSE Null
      [] OTHER -> env

AcceptableLocations(env) == {i \in 1..6 : ShapePredicate(Candidate(i, env))}

\* C7: the resolver returns the candidate of the earliest location, in the
\* order response.result, response.result.text, raw_response, response,
\* response.message, envelope, whose candidate satisfies the shape predicate.
C7_EarliestLocationWins ==
    (resolved # Undef /\ AcceptableLocations(raw) # {})
    => resolved = Candidate(Min(AcceptableLocations(raw)), raw)

\* C8: every strategy accepts its candidate whenever the candidate satisfies
\* the shape predicate, a record with only inventoryItems included.
C8_SamePredicateEverywhere ==
    resolved # Undef => \A i \in 1..6 : ShapePredicate(Candidate(i, raw)) => Strategy(i, raw).hit

\* C9: the resolver returns null exactly when no location holds a candidate
\* that satisfies the shape predicate.
C9_NullOnlyIfAllFail ==
    resolved # Undef => ((resolved = Null) <=> (AcceptableLocations(raw) = {}))

\* response is a record whose message is a non-empty string that neither
\* parses as JSON nor contains a fenced block.
PlainMessage(env) ==
    LET m == Get(Get(env, "response"), "message")
    IN /\ TypeofString(m)
       /\ Truthy(m)
       /\ ~JSONParse(m.s).ok
       /\ ~FenceMatch(m.s).found

ResponseOf(env) == Get(env, "response")
ResultTextOf(env) == Get(Get(ResponseOf(env), "result"), "text")
ResultMessageOf(env) == Get(Get(ResponseOf(env), "result"), "message")
SnapshotMessageOf(env) == Get(parseAgentResponse(env), "message")

\* No field of env holds a message: every one is absent, null, empty or zero.
NoSource(env) ==
    /\ ~Truthy(SnapshotMessageOf(env))
    /\ ~Truthy(Get(ResponseOf(env), "message"))
    /\ ~Truthy(ResultTextOf(env))
    /\ ~Truthy(ResultMessageOf(env))

\* C11: whatever the envelope, extractMessageFromResult hands back a value
\* that is not empty (not the empty string, null, undefined or zero), and
\* when no field of the envelope holds a message it hands back the fixed
\* fallback text.
C11_NeverEmpty ==
    extracted # Undef =>
        /\ extracted # Escaped
        /\ Truthy(extracted)
        /\ extracted # Str(<<>>)
        /\ (NoSource(raw) => extracted = FallbackLiteral)

\* C11 witness: the envelope has a response whose message, result.text and
\* result.message are all empty strings, and the fallback text came back.
C11_Witness ==
    /\ Get(ResponseOf(raw), "message") = Str(<<>>)
    /\ ResultTextOf(raw) = Str(<<>>)
    /\ ResultMessageOf(raw) = Str(<<>>)
    /\ extracted = FallbackLiteral

\* C12: whatever the envelope, the value extractMessageFromResult hands back
\* is a string.
C12_AlwaysString == extracted # Undef => TypeofString(extracted)

\* The five sources in the order of the claim; result.text counts as
\* stringified when it is not a string.
Sources(env) ==
    << SnapshotMessageOf(env),
       Get(ResponseOf(env), "message"),
       IF ResultTextOf(env).t = "string" THEN ResultTextOf(env)
       ELSE IF Truthy(ResultTextOf(env)) THEN JsonText(ResultTextOf(env)) ELSE Undef,
       ResultMessageOf(env),
       Text("Response received. Dashboard updated.") >>

FirstAvailable(srcs) == srcs[Min({i \in 1..Len(srcs) : Truthy(srcs[i])})]

\* C13: extractMessageFromResult hands back the first available of: the
\* resolved snapshot's message, response.message, response.result.text
\* (stringified when it is not a string), response.result.message, the
\* fallback text; a later source is used only when every earlier one is
\* unavailable.
C13_SourceOrder == extracted # Undef => extracted = FirstAvailable(Sources(raw))

\* C13 witness: the resolved snapshot has no message, response.message is
\* unavailable and result.text is a number; its JSON text came back.
C13_Witness ==
    /\ ~Truthy(SnapshotMessageOf(raw))
    /\ ~Truthy(Get(ResponseOf(raw), "message"))
    /\ ResultTextOf(raw) = Num(PText)
    /\ extracted = JsonText(Num(PText))

\* C14: when sendChat merges a resolved snapshot that carries a metrics
\* record, the store's metrics become exactly that record (no field of the
\* previous metrics survives); when the snapshot carries no metrics the
\* store's metrics stay as they were.
C14_MetricsWholesale ==
    [][\A outcome \in Outcomes :
          (ChatSettle(outcome) /\ Truthy(ResolvedOf(outcome)))
          => IF Get(ResolvedOf(outcome), "metrics").t = "object"
             THEN Get(agentData', "metrics") = Get(ResolvedOf(outcome), "metrics")
             ELSE Get(agentData', "metrics") = Get(agentData, "metrics")]_vars

\* C14 witness: the store held the four-field MetricsA of a full load and a
\* chat turn brought the one-field MetricsB; the store's metrics are MetricsB
\* and the lists of the load are still there.
C14_Witness ==
    /\ Get(agentData, "metrics") = MetricsB
    /\ Get(agentData, "orders") = Arr(<<OrderA>>)
    /\ Get(agentData, "salesData") = Arr(<<SaleA>>)

\* C15: when sendChat merges a resolved snapshot, the store's message
\* becomes the incoming message if there is one and otherwise stays as it
\* was; the entries the transcript had stay where and what they were, the
\* only change to the transcript being the reply appended for the turn.
C15_MessagePolicyTranscriptKept ==
    [][\A outcome \in Outcomes :
          (ChatSettle(outcome) /\ Truthy(ResolvedOf(outcome)))
          => /\ Get(agentData', "message")
                  = IF Truthy(Get(ResolvedOf(outcome), "message"))
                    THEN Get(ResolvedOf(outcome), "message")
                    ELSE Get(agentData, "message")
             /\ Len(chatMessages') = Len(chatMessages) + 1
             /\ SubSeq(chatMessages', 1, Len(chatMessages)) = chatMessages
             /\ chatMessages'[Len(chatMessages')].role = "agent"]_vars

\* C15 witness: a load put MsgA in the store and the transcript, then a chat
\* turn brought MsgB: the store's message is MsgB, and the transcript still
\* starts with the load's entry and the user's question.
C15_Witness ==
    /\ Get(agentData, "message") = MsgB
    /\ Get(agentData, "lowStockAlerts") = Arr(<<AlertA>>)
    /\ Len(chatMessages) = 3
    /\ chatMessages[1] = ChatMessage("agent", MsgA)
    /\ chatMessages[2].role = "user"
    /\ chatMessages[3] = ChatMessage("agent", MsgB)

\* C16: a call that succeeds (no exception, success = true) but whose result
\* resolves to no snapshot leaves every field of the store's snapshot as it
\* was.
C16_MissKeepsEveryField ==
    [][\A outcome \in Outcomes :
          ( /\ FetchSettle(outcome) \/ ChatSettle(outcome)
            /\ ~outcome.threw
            /\ Truthy(Get(outcome.v, "success"))
            /\ parseAgentResponse(outcome.v) = Null )
          => /\ agentData'.t = agentData.t
             /\ \A f \in SnapshotFields :
                   /\ Get(agentData', f) = Get(agentData, f)
                   /\ (f \in DOMAIN agentData') = (f \in DOMAIN agentData)]_vars

\* C16 witness: with the snapshot of a full load in the store, a chat call
\* succeeded without a resolvable snapshot (the reply is the fallback text)
\* and the snapshot is still whole.
C16_Witness ==
    /\ agentData = FullSnapshot
    /\ chatCalls = 0
    /\ Len(chatMessages) = 3
    /\ chatMessages[3] = ChatMessage("agent", FallbackLiteral)

\* C17 as claimed: tryParseJSON hands back null for an absent or empty value
\* and hands back unchanged every other value that is not a string (a record,
\* a list, a non-zero number, the boolean true).
C17_EveryNonStringUnchanged ==
    decoded # Undef =>
        /\ (~Truthy(raw) => decoded = Null)
        /\ (Truthy(raw) /\ ~TypeofString(raw) => decoded = raw)

\* C17: tryParseJSON hands back null for an absent or empty value (undefined,
\* null, the empty string, zero, false), hands back unchanged a value that is
\* a record or a list, and hands back null for a non-zero number and for the
\* boolean true.
C17_RecordsAndListsUnchanged ==
    decoded # Undef =>
        /\ (raw.t \in {"undefined", "null"} => decoded = Null)
        /\ (raw \in {Str(<<>>), Num(0), Bool(FALSE)} => decoded = Null)
        /\ (raw.t \in {"object", "array"} => decoded = raw)
        /\ (raw.t \in {"number", "boolean"} => decoded = Null)

\* C17 witness: tryParseJSON was handed the number 7 and handed back null.
C17_Witness == raw = Num(7) /\ decoded = Null

\* What tryParseJSON has to hand back for the text Encode(e, v): v when the
\* whole text is the JSON of v or a fenced block (tagged json or untagged)
\* holds it, the number for a number's JSON text, null for prose and for a
\* block tagged with another language.
ExpectedDecode(e, v) ==
    CASE e \in {"json", "fenced", "fenced-plain"} -> v
      [] e = "number" -> Num(7)
      [] OTHER -> Null

\* C18: on a string tryParseJSON hands back the value of the whole string when
\* that is JSON; otherwise the value of the body of the first fenced block
\* when that body is JSON; otherwise null (the whole string is not JSON and
\* there is no fenced block, or the block's body is not JSON).
C18_StringDecode ==
    decoded # Undef =>
        /\ \A e \in TextEncodings, v \in JsonValues :
              raw = Encode(e, v) => decoded = ExpectedDecode(e, v)
        /\ (raw = NotJson => decoded = Null)
        /\ (raw = OpenFence => decoded = Null)
        /\ (raw = ProseBlockFirst => decoded = Null)
        /\ (raw = TwoBlocks => decoded = MetricsA)
        /\ (raw = PaddedFence => decoded = MetricsA)
        /\ (raw = PaddedJson => decoded = MetricsA)
        /\ (raw = Str(<<TSpace>>) => decoded = Null)

\* C18 witness: the text was prose around a fenced json block holding
\* {"message": "x"}, and that record came back.
C18_Witness ==
    /\ raw = FencedText([t |-> "object", message |-> Text("x")])
    /\ decoded = [t |-> "object", message |-> Text("x")]

\* C19: no exception leaves tryParseJSON, parseAgentResponse or
\* extractMessageFromResult: whatever they are handed, each hands back a
\* value.
C19_NoExceptionEscapes ==
    /\ decoded # Escaped
    /\ resolved # Escaped
    /\ extracted # Escaped

\* C19 witness: all three functions ran on an envelope in which JSON.parse
\* threw (and the throw was caught), and each handed back a value.
C19_Witness ==
    /\ \E e \in extractMessageFromResultRaises(raw) : e.caught
    /\ decoded \notin {Undef, Escaped}
    /\ resolved \notin {Undef, Escaped}
    /\ extracted \notin {Undef, Escaped}

\* C20: in every reachable state at most one fetchDashboard call and at most
\* one sendChat call is in flight; a load is in flight exactly while loading
\* is set, and then neither Refresh nor Retry is available; a chat call is in
\* flight exactly while chatLoading is set, and then sendChat accepts no
\* message.  (A load and a chat call may be in flight together: witness.)
C20_OneCallPerSite ==
    /\ loadCalls <= 1
    /\ chatCalls <= 1
    /\ mounted => (loading <=> loadCalls = 1)
    /\ chatLoading <=> chatCalls = 1
    /\ loadCalls = 1 => ~ENABLED Refresh /\ ~ENABLED Retry
    /\ chatCalls = 1 => \A text \in ChatInputs : ~Accepts(Trim(text))

\* C20 witness: a load and a chat call are in flight at the same time.
C20_Witness == loadCalls = 1 /\ chatCalls = 1

\* The call failed in transport: it threw, or came back with success not set.
TransportFailure(outcome) == outcome.threw \/ ~Truthy(Get(outcome.v, "success"))

\* The call succeeded and its result resolves to no snapshot.
ResolutionMiss(outcome) ==
    ~outcome.threw /\ Truthy(Get(outcome.v, "success")) /\ parseAgentResponse(outcome.v) = Null

\* C21: whenever an agent call settles on a transport failure (success = false
\* or a thrown error), be it a dashboard load or a chat send, error is not
\* null afterwards.
C21_FailureSetsError ==
    [][\A outcome \in Outcomes :
          ((FetchSettle(outcome) \/ ChatSettle(outcome)) /\ TransportFailure(outcome))
          => error' # Null]_vars

Advisory == Text("Could not parse agent response. Try asking a question in the chat.")

\* C22: a call that succeeds but resolves to no snapshot puts the 'could not
\* parse agent response' advisory in front of the user, at the load (as the
\* error) and at the chat (as the error or as the reply), and the loading
\* flag of its call site is false afterwards.
C22_MissShowsAdvisory ==
    [][\A outcome \in Outcomes :
          /\ (FetchSettle(outcome) /\ ResolutionMiss(outcome))
               => (error' = Advisory /\ ~loading')
          /\ (ChatSettle(outcome) /\ ResolutionMiss(outcome))
               => /\ \/ error' = Advisory
                     \/ chatMessages'[Len(chatMessages')].content = Advisory
                  /\ ~chatLoading']_vars

\* The decoded raw_response of env and its response sub-field, decoded once
\* more when it is a string.
RawOuter(env) == tryParseJSON(Get(env, "raw_response"))
RawInner(env) ==
    IF TypeofString(Get(RawOuter(env), "response"))
    THEN tryParseJSON(Get(RawOuter(env), "response"))
    ELSE Get(RawOuter(env), "response")

\* The raw_response strategy is reached and has something to decode.
ReachesRaw(env) ==
    /\ Truthy(env)
    /\ ~Strategy(1, env).hit
    /\ ~Strategy(2, env).hit
    /\ Truthy(Get(env, "raw_response"))

\* C23: when the raw_response strategy is reached, the resolver returns the
\* unwrapped inner value (the response sub-field of the decoded raw_response,
\* decoded once more when it is a string) if that satisfies the shape
\* predicate, and otherwise the outer decoded value if that satisfies it.
C23_InnerThenOuter ==
    (resolved # Undef /\ ReachesRaw(raw))
    => /\ ShapePredicate(RawInner(raw)) => resolved = RawInner(raw)
       /\ (~ShapePredicate(RawInner(raw)) /\ ShapePredicate(RawOuter(raw)))
            => resolved = RawOuter(raw)

\* C23 with the predicate as strategy 3 writes it out (message, metrics or
\* lowStockAlerts, lines 149 and 153).
C23_InnerThenOuterOwnTest ==
    (resolved # Undef /\ ReachesRaw(raw))
    => /\ Test2346(RawInner(raw)) => resolved = RawInner(raw)
       /\ (~Test2346(RawInner(raw)) /\ Test2346(RawOuter(raw)))
            => resolved = RawOuter(raw)

\* response.message of env is a non-empty string.
StringMessage(env) ==
    TypeofString(Get(Get(env, "response"), "message")) /\ Truthy(Get(Get(env, "response"), "message"))

RepliesFollow ==
    \A i \in 1..Len(chatMessages) :
        chatMessages[i].role = "user"
        => IF i < Len(chatMessages) THEN chatMessages[i + 1].role = "agent" ELSE chatCalls = 1

\* C25: a step that dispatches a chat call appends exactly one user message
\* to the transcript, a step that settles one appends exactly one agent
\* message, whatever the outcome; and in every reachable state each user
\* message of the transcript is followed by an agent reply once its call has
\* settled, also when a dashboard load completed while the call was in
\* flight.
C25_OneReplyPerSend ==
    /\ []RepliesFollow
    /\ [][/\ chatCalls' = chatCalls + 1
             => /\ Len(chatMessages') = Len(chatMessages) + 1
                /\ SubSeq(chatMessages', 1, Len(chatMessages)) = chatMessages
                /\ chatMessages'[Len(chatMessages')].role = "user"
          /\ chatCalls' = chatCalls - 1
             => /\ Len(chatMessages') = Len(chatMessages) + 1
                /\ SubSeq(chatMessages', 1, Len(chatMessages)) = chatMessages
                /\ chatMessages'[Len(chatMessages')].role = "agent"]_vars

\* C25 witness: a load and a chat call overlapped and both have settled (the
\* chat call on a thrown error); the user's message is still in the
\* transcript with the reply after it.
C25_Witness ==
    /\ hist.overlap
    /\ hist.load.st = "settled"
    /\ hist.chat.st = "settled"
    /\ chatCalls = 0
    /\ Len(chatMessages) = 2
    /\ chatMessages[1].role = "user"
    /\ chatMessages[2] = ChatMessage("agent", Text("Failed to fetch"))

\* C26: every agent message of the transcript has non-empty content,
\* whatever the outcome of the call that produced it.
C26_AgentContentNonEmpty ==
    \A i \in 1..Len(chatMessages) :
        chatMessages[i].role = "agent"
        => (Truthy(chatMessages[i].content) /\ chatMessages[i].content # Str(<<>>))

\* C27: a step that starts a load sets loading and a step that settles one
\* clears it, whatever the outcome; likewise chatLoading for a chat call; no
\* other step changes either flag; and once the page has mounted, both flags
\* are false whenever no call is in flight.
C27_FlagsTrackCalls ==
    /\ []((mounted /\ loadCalls = 0 /\ chatCalls = 0) => (~loading /\ ~chatLoading))
    /\ [][/\ loadCalls' > loadCalls => loading'
          /\ loadCalls' < loadCalls => ~loading'
          /\ loadCalls' = loadCalls => loading' = loading
          /\ chatCalls' > chatCalls => chatLoading'
          /\ chatCalls' < chatCalls => ~chatLoading'
          /\ chatCalls' = chatCalls => chatLoading' = chatLoading]_vars

\* C27 witness: the latest load and the latest chat call both ended in a
\* thrown error, no call is in flight and both flags are false.
C27_Witness ==
    /\ error = Text("Failed to fetch")
    /\ Len(chatMessages) > 0
    /\ LastMessage = ChatMessage("agent", Text("Failed to fetch"))
    /\ loadCalls = 0
    /\ chatCalls = 0
    /\ ~loading
    /\ ~chatLoading

\* C28: in every reachable state activeAgentId is set if and only if at
\* least one agent call, load or chat, is in flight.
C28_IndicatorAccurate == (activeAgentId # Null) <=> (loadCalls + chatCalls > 0)

\* C29: the merge of a chat turn is idempotent.  Whatever snapshot the store
\* held (none included) and whatever snapshot the turn resolved to, merging
\* the resolved snapshot into the store once more leaves the store as the
\* first merge left it.
C29_MergeIdempotent ==
    [][\A outcome \in Outcomes :
          (ChatSettle(outcome) /\ Truthy(ResolvedOf(outcome)))
          => MergeAgentData(agentData', ResolvedOf(outcome)) = agentData']_vars

\* C29 witness: a chat turn that brought ChatTurnSnapshot was merged into a
\* store that held no snapshot, while a load is in flight.
C29_Witness ==
    /\ chatCalls = 0
    /\ Len(chatMessages) = 2
    /\ chatMessages[1].role = "user"
    /\ chatMessages[2] = ChatMessage("agent", MsgB)
    /\ loadCalls = 1
    /\ agentData = ChatTurnSnapshot

\* sendChat would return at its guard: the input is empty or white space
\* only, or a chat call is in flight.
Rejecting == Trim(chatInput) = <<>> \/ chatLoading

\* C30: from a state in which sendChat returns at its guard no step
\* dispatches a chat call, appends a user message, or sets chatLoading or
\* activeAgentId; and the only steps that change the transcript, the
\* snapshot, chatLoading or activeAgentId are the start and the settling of
\* calls, the only one that changes the chat input is the user's typing.
C30_RejectedSendIsNoOp ==
    [][Rejecting =>
          /\ chatCalls' <= chatCalls
          /\ ~(Len(chatMessages') > Len(chatMessages)
                 /\ chatMessages'[Len(chatMessages')].role = "user")
          /\ (chatLoading' /\ ~chatLoading) = FALSE
          /\ (loadCalls' = loadCalls /\ chatCalls' = chatCalls)
               => UNCHANGED <<chatMessages, agentData, chatLoading, activeAgentId>>
          /\ (loadCalls' = loadCalls /\ chatCalls' = chatCalls /\ chatInput' # chatInput)
               => chatInput' \in ChatInputs /\ UNCHANGED <<chatMessages, agentData>>]_vars

\* C30 witness: a chat call is in flight and the chat box holds a message;
\* sendChat returns at its guard.
C30_Witness ==
    /\ chatLoading
    /\ chatCalls = 1
    /\ Trim(chatInput) # <<>>
    /\ ENABLED SendChatRejected

====
